---- MODULE Spec2Model ----
(***************************************************************************)
(* Model of analysis/merge_and_plot.py: the batch job that loads the       *)
(* per-timepoint scan CSVs resultados_t0..t3.csv, validates them, writes   *)
(* merged_all.csv, pivots the metrics per (image, tag, repo), adds the     *)
(* deltas against T0, writes comparativa.csv, the figures and the          *)
(* provenance JSON.                                                        *)
(*                                                                         *)
(* A cell of a data frame is a record [k, s, n]: k = "null" (NaN),         *)
(* k = "str" (a Python str, in s) or k = "num" (a number, in n).  Numbers  *)
(* are held in hundredths, so that 0.05 is 5 and 2 is 200; differences of  *)
(* hundredths are the hundredths of the differences.                       *)
(***************************************************************************)
EXTENDS Integers, Sequences, FiniteSets, TLC

(***************************************************************************)
(* Bounds of the model.                                                    *)
(***************************************************************************)
\* Rows over all input files together (each file that exists has >= 1 row).
MaxRows == 3
\* Runs of the script over the same input files.
MaxRuns == 2

(***************************************************************************)
(* Cells.                                                                  *)
(***************************************************************************)
Null == [k |-> "null", s |-> "", n |-> 0]
Str(t) == [k |-> "str", s |-> t, n |-> 0]
Num(v) == [k |-> "num", s |-> "", n |-> v]
IsNull(c) == c.k = "null"

(***************************************************************************)
(* pandas.read_csv, line 43.  With the default arguments these texts are   *)
(* read as NaN (keep_default_na = True).                                   *)
(***************************************************************************)
NaTexts ==
    { "", "#N/A", "#N/A N/A", "#NA", "-1.#IND", "-1.#QNAN", "-NaN", "-nan",
      "1.#IND", "1.#QNAN", "<NA>", "N/A", "NA", "NULL", "NaN", "None",
      "n/a", "nan", "null" }

\* The numeric literals that occur in the modelled files, in hundredths.
NumTable ==
    ("0" :> 0) @@ ("2" :> 200) @@ ("3" :> 300) @@ ("5" :> 500) @@
    ("100" :> 10000) @@ ("0.05" :> 5) @@ ("0.08" :> 8) @@ ("0.1" :> 10)

IsNumericText(t) == t \in DOMAIN NumTable

\* read_csv infers one dtype per column of a file: a column all of whose
\* cells are numeric literals or NaN texts is numeric, any other is object
\* and keeps the text of every cell that is not a NaN text.
ColumnIsNumeric(file, c) ==
    \A i \in 1..Len(file.rows) :
        file.rows[i][c] \in NaTexts \/ IsNumericText(file.rows[i][c])

\* ReadCell with keep_default_na off: only the empty cell is NaN.
ReadCellBlankOnly(file, c, i) ==
    LET t == file.rows[i][c] IN
    IF t = "" THEN Null
    ELSE IF \A j \in 1..Len(file.rows) :
               file.rows[j][c] = "" \/ IsNumericText(file.rows[j][c])
         THEN Num(NumTable[t])
    ELSE Str(t)

ReadCell(file, c, i) ==
    LET t == file.rows[i][c] IN
    IF t \in NaTexts THEN Null
    ELSE IF ColumnIsNumeric(file, c) THEN Num(NumTable[t])
    ELSE Str(t)

\* df = pd.read_csv(f)
ReadCsv(file) ==
    [cols |-> file.header,
     rows |-> [i \in 1..Len(file.rows) |->
                 [c \in file.header |-> ReadCell(file, c, i)]]]

(***************************************************************************)
(* Timepoints and columns.                                                 *)
(***************************************************************************)
TIMEPOINTS == <<"t0", "t1", "t2", "t3">>
TpIndex == 1..Len(TIMEPOINTS)
\* Upper without the call of upper().
UpperForgotten(tp) == tp

\* tp.upper()
Upper(tp) ==
    CASE tp = "t0" -> "T0" [] tp = "t1" -> "T1"
      [] tp = "t2" -> "T2" [] tp = "t3" -> "T3"

required_cols ==
    { "timepoint", "image", "tag", "repo", "image_ref",
      "size_mb", "cv_critical", "cv_high", "density", "tp",
      "trivy_version", "scan_utc" }
allowed_nulls == { "trivy_db_updated_at" }
NumericCols == <<"size_mb", "cv_critical", "cv_high", "density">>
base_cols == <<"image", "tag", "repo">>
metrics == <<"cv_critical", "cv_high", "size_mb", "density">>
\* DeltaMetrics taken to be the pivoted metrics.
DeltaMetricsAll == metrics
DeltaMetrics == <<"cv_critical", "cv_high", "density">>
LaterTps == <<"T1", "T2", "T3">>
UpperTps == <<"T0", "T1", "T2", "T3">>

(***************************************************************************)
(* The input files the model draws from.                                   *)
(***************************************************************************)
\* Headers a scan producer writes: every column; every required column;
\* the ten columns of the documented single-T0 example (no timepoint).
FullHeader == (required_cols \ {"tp"}) \cup allowed_nulls
RequiredHeader == required_cols \ {"tp"}
ExampleHeader == required_cols \ {"tp", "timepoint"}
Headers == { FullHeader, RequiredHeader, ExampleHeader }

\* The row of the documented single-T0 example.
ExampleRow ==
    [image |-> "app", tag |-> "v1", repo |-> "r",
     image_ref |-> "registry/app:v1", size_mb |-> "100",
     cv_critical |-> "2", cv_high |-> "3", density |-> "0.05",
     trivy_version |-> "0.1", scan_utc |-> "2024-01-01T00:00:00Z",
     timepoint |-> "", trivy_db_updated_at |-> ""]

\* Row texts: the example row, the same image rescanned, a second image,
\* and rows with one defective cell each.
Catalogue ==
    { ExampleRow,
      [ExampleRow EXCEPT !.cv_critical = "5", !.density = "0.08",
                         !.trivy_db_updated_at = "2024-01-02T00:00:00Z"],
      [ExampleRow EXCEPT !.image = "lib/db", !.image_ref = "registry/lib/db:v1",
                         !.cv_critical = "0", !.density = "0.08"],
      [ExampleRow EXCEPT !.repo = ""],
      [ExampleRow EXCEPT !.size_mb = "N/A"],
      [ExampleRow EXCEPT !.size_mb = "abc"] }

\* A placement puts each of its rows into one timepoint file; the files are
\* listed in timepoint order.  The empty placement is the empty data/csv.
Placements ==
    UNION { { p \in [1..n -> TpIndex \X Catalogue] :
                \A i \in 1..(n - 1) : p[i][1] <= p[i + 1][1] }
            : n \in 0..MaxRows }

RECURSIVE SelectSeq2(_, _, _)
\* The rows of placement p, from position i on, that go to file number t.
SelectSeq2(p, i, t) ==
    IF i > Len(p) THEN <<>>
    ELSE IF p[i][1] = t THEN <<p[i][2]>> \o SelectSeq2(p, i + 1, t)
    ELSE SelectSeq2(p, i + 1, t)

\* The file resultados_<tp>.csv of a placement under header h; the producer
\* writes the label of the scan round into the timepoint column.
FileOf(p, h, t) ==
    LET rs == SelectSeq2(p, 1, t) IN
    [exists |-> rs # <<>>,
     header |-> IF rs = <<>> THEN {} ELSE h,
     rows |-> [i \in 1..Len(rs) |->
                [c \in h |-> IF c = "timepoint" THEN Upper(TIMEPOINTS[t])
                             ELSE rs[i][c]]]]

InputSets ==
    { [t \in TpIndex |-> FileOf(p, h, t)] : p \in Placements, h \in Headers }

(***************************************************************************)
(* State.                                                                  *)
(***************************************************************************)
VARIABLES
    inputs,     \* data/csv/resultados_t<i>.csv, i = 0..3
    outputs,    \* the files under data/csv and data/fig the script writes
    pc,         \* the section of the script that runs next
    df,         \* the merged data frame
    pivot,      \* the pivoted data frame
    error,      \* how the run ended: "" or the failure, with its columns
    wrote,      \* the files this run has written so far
    run,        \* the number of this run over the input files
    prev,       \* the output files as the previous run left them
    clock       \* the wall clock, read by datetime.now

vars == <<inputs, outputs, pc, df, pivot, error, wrote, run, prev, clock>>

EmptyFrame == [cols |-> {}, rows |-> <<>>]
NoError == [kind |-> "", cols |-> {}]
NoFiles == [n \in {} |-> EmptyFrame]

\* WriteFile that leaves a file that exists as it is.
WriteFileIfAbsent(fs, name, content) == fs @@ (name :> content)

\* Writing a file replaces what the name held.
WriteFile(fs, name, content) == (name :> content) @@ fs

(***************************************************************************)
(* Load, lines 38-51.                                                      *)
(***************************************************************************)
\* df = pd.read_csv(f); df["tp"] = tp.upper()
Tagged(file, tp) ==
    LET d == ReadCsv(file) IN
    [cols |-> d.cols \cup {"tp"},
     rows |-> [i \in 1..Len(d.rows) |->
                 [c \in d.cols \cup {"tp"} |->
                    IF c = "tp" THEN Str(Upper(tp)) ELSE d.rows[i][c]]]]

RECURSIVE LoadFrom(_, _)
\* dfs, for the timepoints from number t on
LoadFrom(files, t) ==
    IF t > Len(TIMEPOINTS) THEN <<>>
    ELSE IF files[t].exists
         THEN <<Tagged(files[t], TIMEPOINTS[t])>> \o LoadFrom(files, t + 1)
         ELSE LoadFrom(files, t + 1)

RECURSIVE ConcatRows(_, _, _)
ConcatRows(dfs, i, cols) ==
    IF i > Len(dfs) THEN <<>>
    ELSE [j \in 1..Len(dfs[i].rows) |->
            [c \in cols |-> IF c \in dfs[i].cols THEN dfs[i].rows[j][c]
                            ELSE Null]]
         \o ConcatRows(dfs, i + 1, cols)

\* pd.concat(dfs, ignore_index=True): the union of the columns, a frame's
\* rows holding NaN in the columns it lacks.
Concat(dfs) ==
    LET cols == UNION { dfs[i].cols : i \in 1..Len(dfs) } IN
    [cols |-> cols, rows |-> ConcatRows(dfs, 1, cols)]

Load ==
    /\ pc = "load"
    /\ LET dfs == LoadFrom(inputs, 1) IN
       IF dfs = <<>>
       THEN /\ pc' = "failed"
            /\ error' = [kind |-> "no_inputs", cols |-> {}]
            /\ df' = df
       ELSE /\ pc' = "check_schema"
            /\ error' = error
            /\ df' = Concat(dfs)
    /\ UNCHANGED <<inputs, outputs, pivot, wrote, run, prev, clock>>

(***************************************************************************)
(* Basic validation, lines 54-81.                                          *)
(***************************************************************************)
\* lines 56-63
CheckSchema ==
    /\ pc = "check_schema"
    /\ LET missing == required_cols \ df.cols IN
       IF missing # {}
       THEN /\ pc' = "failed"
            /\ error' = [kind |-> "missing_columns", cols |-> missing]
       ELSE /\ pc' = "check_nulls"
            /\ error' = error
    /\ UNCHANGED <<inputs, outputs, df, pivot, wrote, run, prev, clock>>

\* nulls[c].any()
ColHasNull(d, c) == \E i \in 1..Len(d.rows) : IsNull(d.rows[i][c])

\* BadCols that leaves the metric columns to the numeric check.
BadColsSkipMetrics(d) ==
    d.cols \ (allowed_nulls \cup {"size_mb", "cv_critical", "cv_high", "density"})

\* bad_cols, line 68
BadCols(d) == d.cols \ allowed_nulls

\* lines 65-71
CheckNulls ==
    /\ pc = "check_nulls"
    /\ LET missing_cols == { c \in BadCols(df) : ColHasNull(df, c) } IN
       IF missing_cols # {}
       THEN /\ pc' = "failed"
            /\ error' = [kind |-> "missing_values", cols |-> missing_cols]
       ELSE /\ pc' = "fill_metadata"
            /\ error' = error
    /\ UNCHANGED <<inputs, outputs, df, pivot, wrote, run, prev, clock>>

\* df[c].fillna(v)
FillNa(d, c, v) ==
    [d EXCEPT !.rows = [i \in 1..Len(d.rows) |->
        [d.rows[i] EXCEPT ![c] = IF IsNull(@) THEN v ELSE @]]]

\* lines 73-75
FillMetadata ==
    /\ pc = "fill_metadata"
    /\ df' = IF "trivy_db_updated_at" \in df.cols
             THEN FillNa(df, "trivy_db_updated_at", Str("unknown"))
             ELSE df
    /\ pc' = "enforce_numeric"
    /\ UNCHANGED <<inputs, outputs, pivot, error, wrote, run, prev, clock>>

\* pd.to_numeric(x, errors="coerce") of one cell
ToNumeric(c) ==
    IF c.k = "num" THEN c
    ELSE IF c.k = "str" /\ IsNumericText(c.s) THEN Num(NumTable[c.s])
    ELSE Null

Coerce(d, c) ==
    [d EXCEPT !.rows = [i \in 1..Len(d.rows) |->
        [d.rows[i] EXCEPT ![c] = ToNumeric(@)]]]

\* EnforceFrom that coerces and never raises.
EnforceFromNoRaise(d, i) ==
    [df |-> Coerce(Coerce(Coerce(Coerce(d, "size_mb"), "cv_critical"),
                          "cv_high"), "density"),
     bad |-> ""]

RECURSIVE EnforceFrom(_, _)
\* The loop of lines 78-81 from column number i on: the frame it leaves and
\* the column it raised for ("" when it raised for none).
EnforceFrom(d, i) ==
    IF i > Len(NumericCols) THEN [df |-> d, bad |-> ""]
    ELSE LET d2 == Coerce(d, NumericCols[i]) IN
         IF ColHasNull(d2, NumericCols[i])
         THEN [df |-> d2, bad |-> NumericCols[i]]
         ELSE EnforceFrom(d2, i + 1)

\* lines 77-81
EnforceNumeric ==
    /\ pc = "enforce_numeric"
    /\ LET r == EnforceFrom(df, 1) IN
       /\ df' = r.df
       /\ IF r.bad # ""
          THEN /\ pc' = "failed"
               /\ error' = [kind |-> "non_numeric", cols |-> {r.bad}]
          ELSE /\ pc' = "save_merged"
               /\ error' = error
    /\ UNCHANGED <<inputs, outputs, pivot, wrote, run, prev, clock>>

(***************************************************************************)
(* Save raw merged rows, lines 83-85.                                      *)
(***************************************************************************)
SaveMerged ==
    /\ pc = "save_merged"
    /\ outputs' = WriteFile(outputs, "merged_all.csv", df)
    /\ wrote' = wrote \cup {"merged_all.csv"}
    /\ pc' = "pivot"
    /\ UNCHANGED <<inputs, df, pivot, error, run, prev, clock>>

(***************************************************************************)
(* Pivot, lines 89-98.                                                     *)
(***************************************************************************)
\* Python's order of the texts that occur in the key columns.
TextOrder == <<"app", "lib/db", "r", "v1">>
Rank(t) == CHOOSE i \in 1..Len(TextOrder) : TextOrder[i] = t

CellLess(a, b) ==
    IF a.k = "num" /\ b.k = "num" THEN a.n < b.n ELSE Rank(a.s) < Rank(b.s)

\* The value of the index base_cols in a row.
KeyOf(row) == <<row["image"], row["tag"], row["repo"]>>

\* Tuples of the index compare component by component.
KeyLess(x, y) ==
    \/ CellLess(x[1], y[1])
    \/ x[1] = y[1] /\ CellLess(x[2], y[2])
    \/ x[1] = y[1] /\ x[2] = y[2] /\ CellLess(x[3], y[3])

RECURSIVE SortKeys(_)
\* The keys of a set in ascending order.
SortKeys(ks) ==
    IF ks = {} THEN <<>>
    ELSE LET least == CHOOSE x \in ks : \A y \in ks \ {x} : KeyLess(x, y)
         IN <<least>> \o SortKeys(ks \ {least})

\* GroupKeys without grouping: one key per row of the frame.
GroupKeysPerRow(d) == [i \in 1..Len(d.rows) |-> KeyOf(d.rows[i])]

\* The group keys of the pivot: one per distinct index value, sorted.
GroupKeys(d) == SortKeys({ KeyOf(d.rows[i]) : i \in 1..Len(d.rows) })

\* The values of the tp column that occur in the frame.
TpsIn(d) == { d.rows[i]["tp"].s : i \in 1..Len(d.rows) }

\* The rows of the group (key, tp), in frame order.
GroupRows(d, key, tp) ==
    { i \in 1..Len(d.rows) : KeyOf(d.rows[i]) = key /\ d.rows[i]["tp"].s = tp }

\* PickRow for aggfunc="last".
PickLastRow(g) == CHOOSE i \in g : \A j \in g : i >= j

\* Which row of a group of rows the aggregation takes.
PickRow(g) == CHOOSE i \in g : \A j \in g : i <= j

\* aggfunc="first": the value of the metric in the first row of the group
\* that has one; NaN for a group without rows.
First(d, key, tp, m) ==
    LET g == { i \in GroupRows(d, key, tp) : ~IsNull(d.rows[i][m]) } IN
    IF g = {} THEN Null ELSE d.rows[PickRow(g)][m]

\* '_'.join([c for c in col if c]).rstrip('_'), line 98, for the column
\* (a, b) of the pivot; the names of the model end in no underscore.
Flatten(a, b) == IF b = "" THEN a ELSE IF a = "" THEN b ELSE a \o "_" \o b

Range(sq) == { sq[i] : i \in 1..Len(sq) }

\* The (metric, timepoint) columns of the pivot.
ValueCols(d) == Range(metrics) \X TpsIn(d)

PivotRow(d, key) ==
    [c \in Range(base_cols) \cup { Flatten(p[1], p[2]) : p \in ValueCols(d) } |->
        IF c = "image" THEN key[1]
        ELSE IF c = "tag" THEN key[2]
        ELSE IF c = "repo" THEN key[3]
        ELSE LET p == CHOOSE q \in ValueCols(d) : Flatten(q[1], q[2]) = c
             IN First(d, key, p[2], p[1])]

\* df.pivot_table(index=base_cols, columns="tp", values=metrics,
\*                aggfunc="first").reset_index(), columns flattened
PivotTable(d) ==
    LET keys == GroupKeys(d) IN
    [cols |-> { Flatten(c, "") : c \in Range(base_cols) }
              \cup { Flatten(p[1], p[2]) : p \in ValueCols(d) },
     rows |-> [i \in 1..Len(keys) |-> PivotRow(d, keys[i])]]

Pivot ==
    /\ pc = "pivot"
    /\ pivot' = PivotTable(df)
    /\ pc' = "deltas"
    /\ UNCHANGED <<inputs, outputs, df, error, wrote, run, prev, clock>>

(***************************************************************************)
(* Deltas vs T0, lines 100-110.                                            *)
(***************************************************************************)
\* Minus that takes a missing operand for 0.
MinusZeroFill(a, b) ==
    Num((IF IsNull(a) THEN 0 ELSE a.n) - (IF IsNull(b) THEN 0 ELSE b.n))

\* pivot[col_later] - pivot[col_t0] for one row: NaN when either is NaN.
Minus(a, b) == IF IsNull(a) \/ IsNull(b) THEN Null ELSE Num(a.n - b.n)

DeltaName(col_base, later) == "delta_" \o col_base \o "_" \o later \o "_vs_T0"

\* Whether line 106 lets the delta of (col_base, later) be computed.
HasBoth(pv, col_later, col_t0) == col_later \in pv.cols /\ col_t0 \in pv.cols

\* pivot[name] = pivot[col_later] - pivot[col_t0]
WithDelta(pv, name, col_later, col_t0) ==
    [cols |-> pv.cols \cup {name},
     rows |-> [i \in 1..Len(pv.rows) |->
                 (name :> Minus(pv.rows[i][col_later], pv.rows[i][col_t0]))
                 @@ pv.rows[i]]]

RECURSIVE AddDeltaFrom(_, _, _)
\* The loop of add_delta from the later timepoint number i on.
AddDeltaFrom(pv, col_base, i) ==
    IF i > Len(LaterTps) THEN pv
    ELSE LET later == LaterTps[i]
             col_later == col_base \o "_" \o later
             col_t0 == col_base \o "_T0"
         IN IF HasBoth(pv, col_later, col_t0)
            THEN AddDeltaFrom(
                     WithDelta(pv, DeltaName(col_base, later), col_later, col_t0),
                     col_base, i + 1)
            ELSE AddDeltaFrom(pv, col_base, i + 1)

add_delta(pv, col_base) == AddDeltaFrom(pv, col_base, 1)

RECURSIVE AddDeltasFrom(_, _)
\* for m in ["cv_critical", "cv_high", "density"]: add_delta(m)
AddDeltasFrom(pv, i) ==
    IF i > Len(DeltaMetrics) THEN pv
    ELSE AddDeltasFrom(add_delta(pv, DeltaMetrics[i]), i + 1)

Deltas ==
    /\ pc = "deltas"
    /\ pivot' = AddDeltasFrom(pivot, 1)
    /\ pc' = "save_comparativa"
    /\ UNCHANGED <<inputs, outputs, df, error, wrote, run, prev, clock>>

(***************************************************************************)
(* Save comparative table, lines 112-115.                                  *)
(***************************************************************************)
SaveComparativa ==
    /\ pc = "save_comparativa"
    /\ outputs' = WriteFile(outputs, "comparativa.csv", pivot)
    /\ wrote' = wrote \cup {"comparativa.csv"}
    /\ pc' = "figures"
    /\ UNCHANGED <<inputs, df, pivot, error, run, prev, clock>>

(***************************************************************************)
(* Figures, lines 118-169.  A figure file is held as the data it plots.    *)
(***************************************************************************)
\* pivot[cols] as plotted: the rows cut down to the columns cols.
Project(pv, cols) ==
    [i \in 1..Len(pv.rows) |-> [c \in cols |-> pv.rows[i][c]]]

\* density_cols_sorted, lines 127-129
DensityColsSorted(pv) ==
    SelectSeq([i \in 1..Len(UpperTps) |-> "density_" \o UpperTps[i]],
              LAMBDA c : c \in pv.cols)

\* Figure 1, lines 131-144
DensityFigure(pv) ==
    LET dcs == DensityColsSorted(pv) IN
    IF Len(dcs) >= 2
    THEN "density_T0_T3.png" :> Project(pv, {"image"} \cup Range(dcs))
    ELSE IF "density_T0" \in pv.cols
    THEN "density_T0_only.png" :> Project(pv, {"image", "density_T0"})
    ELSE NoFiles

\* img.replace('/', '_') for the image names of the model
Slashless(img) == IF img = "lib/db" THEN "lib_db" ELSE img

RECURSIVE RowsOfFrom(_, _, _, _)
\* The rows of image img with timepoint tp, from row i on, in frame order.
RowsOfFrom(d, img, tp, i) ==
    IF i > Len(d.rows) THEN <<>>
    ELSE IF d.rows[i]["image"] = img /\ d.rows[i]["tp"].s = tp
         THEN <<[c \in {"tp", "cv_critical", "cv_high"} |-> d.rows[i][c]]>>
              \o RowsOfFrom(d, img, tp, i + 1)
         ELSE RowsOfFrom(d, img, tp, i + 1)

RECURSIVE SeriesFrom(_, _, _)
\* g.set_index("tp")[["cv_critical", "cv_high"]].sort_index(), lines 151-155
SeriesFrom(d, img, t) ==
    IF t > Len(UpperTps) THEN <<>>
    ELSE RowsOfFrom(d, img, UpperTps[t], 1) \o SeriesFrom(d, img, t + 1)

RECURSIVE SeriesFigures(_, _)
\* One file per image of the set imgs.
SeriesFigures(d, imgs) ==
    IF imgs = {} THEN NoFiles
    ELSE LET img == CHOOSE x \in imgs : TRUE IN
         (("cves_over_time_" \o Slashless(img.s) \o ".png")
              :> SeriesFrom(d, img, 1))
         @@ SeriesFigures(d, imgs \ {img})

\* TimeSeriesFigures without the test for two timepoints.
TimeSeriesFiguresAlways(d) ==
    SeriesFigures(d, { d.rows[i]["image"] : i \in 1..Len(d.rows) })

\* Figure 2, lines 146-160
TimeSeriesFigures(d) ==
    IF Cardinality(TpsIn(d)) >= 2
    THEN SeriesFigures(d, { d.rows[i]["image"] : i \in 1..Len(d.rows) })
    ELSE NoFiles

\* Figure 3, lines 162-169
DeltaFigure(pv) ==
    IF {"density_T0", "density_T3"} \subseteq pv.cols
    THEN "delta_density_T3_vs_T0.png" :>
            [i \in 1..Len(pv.rows) |->
                [image |-> pv.rows[i]["image"],
                 delta_density_T3_vs_T0 |->
                    Minus(pv.rows[i]["density_T3"], pv.rows[i]["density_T0"])]]
    ELSE NoFiles

FigureFiles(d, pv) ==
    DeltaFigure(pv) @@ TimeSeriesFigures(d) @@ DensityFigure(pv)

Figures ==
    /\ pc = "figures"
    /\ outputs' = FigureFiles(df, pivot) @@ outputs
    /\ wrote' = wrote \cup DOMAIN FigureFiles(df, pivot)
    /\ pc' = "provenance"
    /\ UNCHANGED <<inputs, df, pivot, error, run, prev, clock>>

(***************************************************************************)
(* Provenance note, lines 172-186.                                         *)
(***************************************************************************)
\* The provenance dict; now is datetime.now(timezone.utc), in clock ticks.
ProvenanceRecord(files, now) ==
    [script |-> "analysis/merge_and_plot.py",
     generated_utc |-> now,
     inputs_present |-> SelectSeq(TIMEPOINTS,
         LAMBDA tp : \E t \in TpIndex : TIMEPOINTS[t] = tp /\ files[t].exists),
     outputs |-> [merged_all_csv |-> "data/csv/merged_all.csv",
                  comparativa_csv |-> "data/csv/comparativa.csv",
                  fig_dir |-> "data/fig"]]

Provenance ==
    /\ pc = "provenance"
    /\ outputs' = WriteFile(outputs, "analysis_provenance.json",
                            ProvenanceRecord(inputs, clock))
    /\ wrote' = wrote \cup {"analysis_provenance.json"}
    /\ pc' = "done"
    /\ UNCHANGED <<inputs, df, pivot, error, run, prev, clock>>

(***************************************************************************)
(* The script is run again over the same data/csv, later.  A run that      *)
(* failed wrote nothing and changed nothing, so a run after it starts as   *)
(* the failed one did; only the runs after a completed run are new.        *)
(***************************************************************************)
Rerun ==
    /\ pc = "done"
    /\ run < MaxRuns
    /\ run' = run + 1
    /\ prev' = outputs
    /\ clock' = clock + 1
    /\ pc' = "load"
    /\ df' = EmptyFrame
    /\ pivot' = EmptyFrame
    /\ error' = NoError
    /\ wrote' = {}
    /\ UNCHANGED <<inputs, outputs>>

Init ==
    /\ inputs \in InputSets
    /\ outputs = NoFiles
    /\ pc = "load"
    /\ df = EmptyFrame
    /\ pivot = EmptyFrame
    /\ error = NoError
    /\ wrote = {}
    /\ run = 1
    /\ prev = NoFiles
    /\ clock = 0

Next ==
    \/ Load
    \/ CheckSchema
    \/ CheckNulls
    \/ FillMetadata
    \/ EnforceNumeric
    \/ SaveMerged
    \/ Pivot
    \/ Deltas
    \/ SaveComparativa
    \/ Figures
    \/ Provenance
    \/ Rerun

Spec == Init /\ [][Next]_vars

(***************************************************************************)
(* Vocabulary of the properties, over the input files as texts.            *)
(***************************************************************************)
Ended == pc \in {"done", "failed"}
ExistingFiles == { t \in TpIndex : inputs[t].exists }
InputHeaders == UNION { inputs[t].header : t \in ExistingFiles }

\* Every file carries every required column (tp is added by the loader).
HasAllRequired ==
    \A t \in ExistingFiles : (required_cols \ {"tp"}) \subseteq inputs[t].header

\* A cell text that no validation step rejects in column c.
ValidText(c, text) ==
    \/ c \in allowed_nulls
    \/ /\ text \notin NaTexts
       /\ c \in Range(NumericCols) => IsNumericText(text)

\* The columns, other than the allowed-null one, with a null cell.
RawNullCols ==
    { c \in InputHeaders \ allowed_nulls :
        \E t \in ExistingFiles : \E i \in 1..Len(inputs[t].rows) :
            inputs[t].rows[i][c] \in NaTexts }

ValidInputs ==
    /\ ExistingFiles # {}
    /\ HasAllRequired
    /\ \A t \in ExistingFiles : \A i \in 1..Len(inputs[t].rows) :
         \A c \in inputs[t].header : ValidText(c, inputs[t].rows[i][c])

\* The frame satisfies every validation step of lines 54-81.
Validated(d) ==
    /\ required_cols \subseteq d.cols
    /\ \A i \in 1..Len(d.rows) :
         /\ \A c \in d.cols : ~IsNull(d.rows[i][c])
         /\ \A c \in Range(NumericCols) : d.rows[i][c].k = "num"

AllDeltaNames == { DeltaName(m, l) : m \in Range(metrics), l \in Range(LaterTps) }

(***************************************************************************)
(* C1                                                                      *)
(***************************************************************************)
\* C1: a run that aborts (no input file, missing column, disallowed null,
\* non-numeric metric) has written no file and leaves data/csv and data/fig
\* as it found them; merged_all.csv (and so every later artifact) is written
\* by a run only when the frame has passed every validation step.
C1_FailFastNoPartialWrites ==
    /\ pc = "failed" => wrote = {} /\ outputs = prev /\ error.kind # ""
    /\ pc \in {"load", "check_schema", "check_nulls", "fill_metadata",
               "enforce_numeric"} => wrote = {}
    /\ wrote # {} => "merged_all.csv" \in wrote
    /\ "merged_all.csv" \in wrote =>
          error = NoError /\ Validated(outputs["merged_all.csv"])

\* A run has aborted at the last validation step: the numeric coercion failed.
C1_Witness == pc = "failed" /\ error.kind = "non_numeric"

(***************************************************************************)
(* C2                                                                      *)
(***************************************************************************)
\* The input has every required column, a row whose size_mb is the text
\* "N/A", and no other defective cell.
OnlyDefectIsSizeNA ==
    /\ ExistingFiles # {}
    /\ HasAllRequired
    /\ \E t \in ExistingFiles : \E i \in 1..Len(inputs[t].rows) :
         inputs[t].rows[i]["size_mb"] = "N/A"
    /\ \A t \in ExistingFiles : \A i \in 1..Len(inputs[t].rows) :
         \A c \in inputs[t].header :
            \/ c = "size_mb" /\ inputs[t].rows[i][c] = "N/A"
            \/ ValidText(c, inputs[t].rows[i][c])

\* C2 as stated: such a run ends with the non-numeric failure for size_mb
\* and has written no file.
C2_Original ==
    OnlyDefectIsSizeNA /\ Ended =>
        /\ pc = "failed"
        /\ error = [kind |-> "non_numeric", cols |-> {"size_mb"}]
        /\ wrote = {}

\* C2, amended: a run over such an input never gets past the null check; it
\* ends with the missing-value failure naming size_mb (read_csv reads the
\* text N/A as NaN) and has written no file.
C2_SizeNAIsMissingValue ==
    OnlyDefectIsSizeNA =>
        /\ pc \in {"load", "check_schema", "check_nulls", "failed"}
        /\ wrote = {}
        /\ pc = "failed" =>
              error = [kind |-> "missing_values", cols |-> {"size_mb"}]

C2_Witness == OnlyDefectIsSizeNA /\ pc = "failed"

(***************************************************************************)
(* C3                                                                      *)
(***************************************************************************)
\* The single T0 file of the documented example, under header h.
ExampleInput(h) ==
    [t \in TpIndex |->
        IF t = 1
        THEN [exists |-> TRUE, header |-> h,
              rows |-> <<[c \in h |-> IF c = "timepoint" THEN "T0"
                                      ELSE ExampleRow[c]]>>]
        ELSE [exists |-> FALSE, header |-> {}, rows |-> <<>>]]

\* What the example is documented to produce.
ExampleOutcome ==
    /\ pc = "done"
    /\ Len(outputs["merged_all.csv"].rows) = 1
    /\ Len(outputs["comparativa.csv"].rows) = 1
    /\ outputs["comparativa.csv"].rows[1]["density_T0"] = Num(5)
    /\ outputs["comparativa.csv"].cols \cap AllDeltaNames = {}
    /\ wrote = {"merged_all.csv", "comparativa.csv", "density_T0_only.png",
                "analysis_provenance.json"}

\* C3 as stated: the run over the ten-column example file completes with
\* the documented outcome.
C3_Original ==
    inputs = ExampleInput(ExampleHeader) /\ Ended => ExampleOutcome

\* C3, amended: the ten-column example file lacks the required column
\* timepoint, so its run aborts with the missing-columns failure and writes
\* nothing; with the timepoint column added the run does not fail and ends
\* with merged_all.csv of 1 row, comparativa.csv of 1 row with density_T0 =
\* 0.05 and no delta column, the single-timepoint density chart and no
\* per-image chart.
C3_ExampleNeedsTimepointColumn ==
    /\ inputs = ExampleInput(ExampleHeader) /\ Ended =>
          /\ pc = "failed"
          /\ error = [kind |-> "missing_columns", cols |-> {"timepoint"}]
          /\ wrote = {}
    /\ inputs = ExampleInput(RequiredHeader) =>
          /\ pc # "failed"
          /\ Ended => ExampleOutcome

C3_Witness == inputs = ExampleInput(RequiredHeader) /\ pc = "done"

(***************************************************************************)
(* C4                                                                      *)
(***************************************************************************)
\* C4 as stated: after a second run over the same input files every file is
\* what the first run wrote.
C4_Original == run >= 2 /\ pc = "done" => outputs = prev

\* C4, amended: after a later run over the same input files the set of
\* output files is the same and every file is what the run before wrote,
\* except the provenance JSON, which the run writes anew and which differs
\* from the earlier one in generated_utc alone.
C4_RerunSameButTimestamp ==
    run >= 2 /\ Ended =>
        /\ DOMAIN outputs = DOMAIN prev
        /\ \A f \in DOMAIN outputs \ {"analysis_provenance.json"} :
              outputs[f] = prev[f]
        /\ pc = "done" =>
              /\ wrote = DOMAIN outputs
              /\ outputs["analysis_provenance.json"].generated_utc = clock
              /\ prev["analysis_provenance.json"].generated_utc < clock
              /\ [outputs["analysis_provenance.json"] EXCEPT !.generated_utc = 0]
                 = [prev["analysis_provenance.json"] EXCEPT !.generated_utc = 0]

C4_Witness ==
    run = 2 /\ pc = "done" /\ "delta_density_T3_vs_T0.png" \in wrote
    /\ "cves_over_time_lib_db.png" \in wrote

(***************************************************************************)
(* C5                                                                      *)
(***************************************************************************)
\* C5: when every file carries every required column and some cell outside
\* trivy_db_updated_at is null, the run never gets past the null check and
\* ends with the missing-value failure naming exactly the columns that hold
\* a null, whatever else the rows hold (non-numeric metrics included).
C5_NullAbortsWithMissingValues ==
    HasAllRequired /\ RawNullCols # {} =>
        /\ pc \in {"load", "check_schema", "check_nulls", "failed"}
        /\ pc = "failed" =>
              error = [kind |-> "missing_values", cols |-> RawNullCols]

\* The run aborted for a missing repo although another row holds a
\* non-numeric size_mb.
C5_Witness ==
    /\ pc = "failed"
    /\ HasAllRequired
    /\ "repo" \in RawNullCols
    /\ \E t \in ExistingFiles : \E i \in 1..Len(inputs[t].rows) :
          inputs[t].rows[i]["size_mb"] = "abc"

(***************************************************************************)
(* Vocabulary over the written files.                                      *)
(***************************************************************************)
\* The rows of the merged file with index value key and timepoint tp.
MergedGroup(mg, key, tp) ==
    { j \in 1..Len(mg.rows) :
        /\ mg.rows[j]["image"] = key[1]
        /\ mg.rows[j]["tag"] = key[2]
        /\ mg.rows[j]["repo"] = key[3]
        /\ mg.rows[j]["tp"] = Str(tp) }

\* value(M, Tn) of a key: the metric in the first merged row of the key at
\* that timepoint; missing when the key has no row there.
Observed(mg, key, tp, m) ==
    LET g == MergedGroup(mg, key, tp) IN
    IF g = {} THEN Null
    ELSE mg.rows[CHOOSE j \in g : \A j2 \in g : j <= j2][m]

ComparativaWritten == "comparativa.csv" \in wrote

(***************************************************************************)
(* C6                                                                      *)
(***************************************************************************)
\* C6: in every comparativa.csv, each delta column of a metric M and a later
\* timepoint Tn holds, row by row, value(M,Tn) - value(M,T0) when the key
\* has both values and is missing when it lacks either.
C6_DeltaIsDifference ==
    ComparativaWritten =>
        LET cmp == outputs["comparativa.csv"]
            mg == outputs["merged_all.csv"]
        IN \A m \in Range(DeltaMetrics) : \A l \in Range(LaterTps) :
             DeltaName(m, l) \in cmp.cols =>
               \A i \in 1..Len(cmp.rows) :
                 LET a == Observed(mg, KeyOf(cmp.rows[i]), l, m)
                     b == Observed(mg, KeyOf(cmp.rows[i]), "T0", m)
                     dl == cmp.rows[i][DeltaName(m, l)]
                 IN IF IsNull(a) \/ IsNull(b) THEN IsNull(dl)
                    ELSE dl.k = "num" /\ dl.n = a.n - b.n

\* cv_critical went from 2 at T0 to 5 at T1 for one key, giving the delta 3,
\* and another key of the same table has no T1 row and a missing delta.
C6_Witness ==
    /\ ComparativaWritten
    /\ "delta_cv_critical_T1_vs_T0" \in outputs["comparativa.csv"].cols
    /\ \E i \in 1..Len(outputs["comparativa.csv"].rows) :
          LET r == outputs["comparativa.csv"].rows[i] IN
          /\ r["cv_critical_T0"] = Num(200)
          /\ r["cv_critical_T1"] = Num(500)
          /\ r["delta_cv_critical_T1_vs_T0"] = Num(300)
    /\ \E i \in 1..Len(outputs["comparativa.csv"].rows) :
          IsNull(outputs["comparativa.csv"].rows[i]["delta_cv_critical_T1_vs_T0"])

(***************************************************************************)
(* C7                                                                      *)
(***************************************************************************)
\* C7: a run over valid files without resultados_t0.csv does not fail and
\* its comparativa.csv has no delta column; in every comparativa.csv a delta
\* column of (M, Tn) comes with the columns M_Tn and M_T0, and size_mb has
\* no delta column.
C7_NoBaselineNoDeltas ==
    /\ ValidInputs /\ ~inputs[1].exists => pc # "failed"
    /\ ComparativaWritten =>
         LET cmp == outputs["comparativa.csv"] IN
         /\ ~inputs[1].exists => cmp.cols \cap AllDeltaNames = {}
         /\ \A m \in Range(metrics) : \A l \in Range(LaterTps) :
              DeltaName(m, l) \in cmp.cols =>
                 /\ (m \o "_" \o l) \in cmp.cols
                 /\ (m \o "_T0") \in cmp.cols
                 /\ m # "size_mb"

\* A run over T1 and T3 files alone has finished.
C7_Witness ==
    /\ pc = "done"
    /\ ExistingFiles = {2, 4}
    /\ {"density_T1", "density_T3"} \subseteq outputs["comparativa.csv"].cols

(***************************************************************************)
(* C8                                                                      *)
(***************************************************************************)
\* C8: every (image, tag, repo) of the merged table has exactly one row in
\* the pivoted table, and every row of the pivoted table is of a key of the
\* merged table.
C8_OneRowPerKey ==
    pc \in {"deltas", "save_comparativa", "figures", "provenance", "done"} =>
        LET mg == outputs["merged_all.csv"] IN
        /\ \A j \in 1..Len(mg.rows) :
             Cardinality({ i \in 1..Len(pivot.rows) :
                             KeyOf(pivot.rows[i]) = KeyOf(mg.rows[j]) }) = 1
        /\ \A i \in 1..Len(pivot.rows) :
             \E j \in 1..Len(mg.rows) : KeyOf(mg.rows[j]) = KeyOf(pivot.rows[i])

\* Three merged rows, two of them of one key at one timepoint, pivoted into
\* two rows.
C8_Witness ==
    /\ pc = "deltas"
    /\ Len(df.rows) = 3
    /\ Len(pivot.rows) = 2
    /\ \E i, j \in 1..3 :
          i # j /\ KeyOf(df.rows[i]) = KeyOf(df.rows[j])
          /\ df.rows[i]["tp"] = df.rows[j]["tp"]

(***************************************************************************)
(* C9                                                                      *)
(***************************************************************************)
\* The number of rows of the files before file number t.
RECURSIVE RowsBefore(_)
RowsBefore(t) ==
    IF t = 1 THEN 0 ELSE RowsBefore(t - 1) + Len(inputs[t - 1].rows)

\* A merged cell holds what the text of the input cell says.
SameAsText(cell, c, text) ==
    IF text \in NaTexts
    THEN c \in allowed_nulls /\ cell = Str("unknown")
    ELSE \/ cell = Str(text)
         \/ IsNumericText(text) /\ cell = Num(NumTable[text])

\* C9: merged_all.csv holds the rows of the files that exist, in the order
\* t0..t3 and in file order within a file, each with the uppercased label of
\* its file in tp (an empty trivy_db_updated_at reads "unknown"); it has as
\* many rows as the files together.
C9_MergedIsConcatenation ==
    "merged_all.csv" \in wrote =>
        LET mg == outputs["merged_all.csv"] IN
        /\ Len(mg.rows) = RowsBefore(Len(TIMEPOINTS) + 1)
        /\ \A t \in ExistingFiles : \A i \in 1..Len(inputs[t].rows) :
             LET r == mg.rows[RowsBefore(t) + i] IN
             /\ r["tp"] = Str(UpperTps[t])
             /\ \A c \in inputs[t].header :
                  SameAsText(r[c], c, inputs[t].rows[i][c])

\* Files t0 and t2 exist, t1 and t3 do not; t2 has two different rows.
C9_Witness ==
    /\ "merged_all.csv" \in wrote
    /\ ExistingFiles = {1, 3}
    /\ Len(inputs[3].rows) = 2
    /\ inputs[3].rows[1] # inputs[3].rows[2]

(***************************************************************************)
(* C10                                                                     *)
(***************************************************************************)
\* C10: for every key and timepoint with rows in the merged table, the four
\* metric cells of the key's comparativa row at that timepoint are those of
\* the first such merged row.
C10_DuplicatesKeepFirst ==
    ComparativaWritten =>
        LET cmp == outputs["comparativa.csv"]
            mg == outputs["merged_all.csv"]
        IN \A i \in 1..Len(cmp.rows) : \A tp \in Range(UpperTps) :
             LET g == MergedGroup(mg, KeyOf(cmp.rows[i]), tp) IN
             g # {} =>
               \E j \in g :
                 /\ \A j2 \in g : j <= j2
                 /\ \A m \in Range(metrics) :
                      cmp.rows[i][m \o "_" \o tp] = mg.rows[j][m]

\* Two rows of one key in one file differ in cv_critical and density, and
\* comparativa.csv has been written from them.
C10_Witness ==
    /\ ComparativaWritten
    /\ \E j, j2 \in 1..Len(outputs["merged_all.csv"].rows) :
          LET mg == outputs["merged_all.csv"] IN
          /\ j < j2
          /\ KeyOf(mg.rows[j]) = KeyOf(mg.rows[j2])
          /\ mg.rows[j]["tp"] = mg.rows[j2]["tp"]
          /\ mg.rows[j]["cv_critical"] # mg.rows[j2]["cv_critical"]
          /\ mg.rows[j]["density"] # mg.rows[j2]["density"]

====
